---- MODULE Spec2Model ----
(***************************************************************************)
(* Fortune's sweep (voronoi.py) with its lazy-deletion priority queue      *)
(* (event_priority_queue.py), the Point / Event / LineSegment /            *)
(* ParabolicArc records and the largest-empty-circle bookkeeping.          *)
(*                                                                         *)
(* Numbers.  A Point coordinate is held in tenths (Point.__init__ rounds   *)
(* to one decimal), so a Point is a pair of integers.  A float that is     *)
(* about to be rounded into a Point is held as an exact fraction n/d of    *)
(* tenths and rounded by Round1.  An Event's x (centre x + radius, not     *)
(* rounded by the code) is held in fixed point, FS units per tenth.  A     *)
(* circle radius is the square root of an integer number of hundredths;    *)
(* it is held as that integer (its square): the code only orders radii     *)
(* and compares them within EPSILON = 1e-10, and the roots of two distinct *)
(* integers of this size differ by far more than 1e-10.                    *)
(***************************************************************************)
EXTENDS Integers, Sequences, FiniteSets, TLC

VARIABLES
    pc,                     \* position in generate_voronoi_diagram
    sites,                  \* the constructor's argument `points` (history)
    x1, y1,                 \* bounding box, tenths (x0 = y0 = 0)
    points,                 \* self.points  : EventPriorityQueue of Points
    events,                 \* self.events  : EventPriorityQueue of Events
    evs,                    \* every Event object created, by identity
    arcs,                   \* every ParabolicArc object created, by identity
    parabolicArc,           \* self.parabolicArc : head arc (0 = None)
    output,                 \* self.output : LineSegments, by position
    largest_empty_circles,  \* self.largest_empty_circles
    max_circle_radius,      \* self.max_circle_radius, as its square (hundredths)
    trace,                  \* history: the events popped, in order
    q,                      \* a schedule driven directly (queue contract)
    qlog                    \* history of the operations applied to q

vars == <<pc, sites, x1, y1, points, events, evs, arcs, parabolicArc, output,
          largest_empty_circles, max_circle_radius, trace, q, qlog>>

\* ---------------------------------------------------------------- bounds
MaxSites == 4       \* length of the input list
MaxOps == 5         \* operations applied to the directly driven schedule
Coords == 0..2      \* sites lie on this integer grid (units); the box is 3 x 3

\* fixed-point resolutions (units per tenth / per unit vector)
FS == 10 * 10        \* an Event's x
LS == 5 * 100        \* the first estimate of a rounded surd

None == 0
Abs(n) == IF n < 0 THEN -n ELSE n
Max(a, b) == IF a >= b THEN a ELSE b
Min(a, b) == IF a <= b THEN a ELSE b
Sgn(n) == IF n < 0 THEN -1 ELSE IF n > 0 THEN 1 ELSE 0

\* math.sqrt on an exact integer radicand: the floor of the root
RECURSIVE SqrtUp(_, _)
SqrtUp(n, k) == IF (k + 1) * (k + 1) > n THEN k ELSE SqrtUp(n, k + 1)
RECURSIVE SqrtBis(_, _, _)
SqrtBis(n, lo, hi) ==
    IF hi - lo <= 1 THEN lo
    ELSE LET mid == (lo + hi) \div 2
         IN  IF mid * mid <= n THEN SqrtBis(n, mid, hi) ELSE SqrtBis(n, lo, mid)
ISqrt(n) == IF n < 4 THEN SqrtUp(n, 0) ELSE SqrtBis(n, 1, Min(n, 46341))
\* math.sqrt rounded to the nearest fixed-point unit
RSqrtFrom(n, k) == IF n - k * k > k THEN k + 1 ELSE k
RSqrt(n) == RSqrtFrom(n, ISqrt(n))

\* float(f"{v:.1f}") for v = n/d tenths: nearest integer, an exact tie to even
RoundTie(nn, dd, fl) ==
    IF 2 * (nn - fl * dd) < dd THEN fl
    ELSE IF 2 * (nn - fl * dd) > dd THEN fl + 1
    ELSE IF fl % 2 = 0 THEN fl ELSE fl + 1
RoundPos(nn, dd) == RoundTie(nn, dd, nn \div dd)
Round1(n, d) == RoundPos(IF d > 0 THEN n ELSE -n, Abs(d))

\* Point(x, y) with x = xn/xd and y = yn/yd tenths
Point(xn, xd, yn, yd) == [x |-> Round1(xn, xd), y |-> Round1(yn, yd)]
NoPoint == [x |-> -99999, y |-> -99999]      \* LineSegment.end = None

\* Event(x, p, a): `id` stands for the object's identity
Event(x, p, a, id) == [x |-> x, p |-> p, a |-> a, valid |-> TRUE, id |-> id]
\* Event.__hash__ / __eq__ : by (x, p);  Point: by value
IsEvent(item) == "id" \in DOMAIN item
KeyOf(item) == IF IsEvent(item) THEN <<item.x, item.p.x, item.p.y>>
               ELSE <<item.x, item.y>>

\* ------------------------------------------------- EventPriorityQueue
\* _queue: the heap, as the set of its entries [x, c, item]; an entry whose
\* item was overwritten by _REMOVED has removed = TRUE.  The heap orders by
\* (x, c) and c is unique, so heappop returns the least (x, c).
\* _entry_finder: the dict, as the sequence of its keys' entries in insertion
\* order.
EmptyQueue == [queue |-> {}, finder |-> <<>>, counter |-> 0]

empty(Q) == Len(Q.finder) = 0

HeapByCounter(S) == CHOOSE e \in S : \A f \in S : e.c <= f.c
HeapMin(S) == CHOOSE e \in S : \A f \in S :
                  e.x < f.x \/ (e.x = f.x /\ e.c <= f.c)

FinderIdx(Q, k) == {i \in 1..Len(Q.finder) : KeyOf(Q.finder[i].item) = k}
InFinder(Q, item) == FinderIdx(Q, KeyOf(item)) # {}
DelAt(s, i) == SubSeq(s, 1, i - 1) \o SubSeq(s, i + 1, Len(s))

\* remove(item): entry = _entry_finder.pop(item); entry[-1] = _REMOVED
RemoveAt(Q, i) ==
    [Q EXCEPT !.finder = DelAt(@, i),
              !.queue = {IF e.c = Q.finder[i].c THEN [e EXCEPT !.removed = TRUE]
                         ELSE e : e \in @}]
remove(Q, item) == RemoveAt(Q, CHOOSE j \in FinderIdx(Q, KeyOf(item)) : TRUE)

\* push, lines 33-36: the new entry [item.x, _counter, item]
PushEntry(Q, item, c) ==
    [queue |-> Q.queue \cup {[x |-> item.x, c |-> c, item |-> item,
                               removed |-> FALSE]},
     finder |-> Append(Q.finder, [item |-> item, c |-> c]),
     counter |-> c]
PushNoReplace(Q, item) == PushEntry(Q, item, Q.counter + 1)
PushNew(Q, item) == PushEntry(Q, item, Q.counter + 1)

push(Q, item) == PushNew(IF InFinder(Q, item) THEN remove(Q, item) ELSE Q, item)

\* pop(): [Q |-> the queue afterwards, ok |-> an item was returned, item]
RECURSIVE pop(_)
PopEntry(Q, e) ==
    IF ~e.removed
    THEN [Q |-> [Q EXCEPT !.queue = @ \ {e},
                          !.finder = DelAt(@, CHOOSE j \in FinderIdx(Q, KeyOf(e.item)) : TRUE)],
          ok |-> TRUE, item |-> e.item]
    ELSE pop([Q EXCEPT !.queue = @ \ {e}])
pop(Q) ==
    IF Q.queue = {} THEN [Q |-> Q, ok |-> FALSE, item |-> NoPoint]
    ELSE PopEntry(Q, HeapMin(Q.queue))

\* top(): pops to the first live entry and pushes its item again
TopNoReinsert(Q, e) == PopEntry(Q, e)
RECURSIVE top(_)
TopEntry(Q, e) ==
    IF ~e.removed
    THEN [Q |-> push([Q EXCEPT !.queue = @ \ {e}], e.item), ok |-> TRUE,
          item |-> e.item]
    ELSE top([Q EXCEPT !.queue = @ \ {e}])
top(Q) ==
    IF Q.queue = {} THEN [Q |-> Q, ok |-> FALSE, item |-> NoPoint]
    ELSE TopEntry(Q, HeapMin(Q.queue))

\* ------------------------------------------------------------ geometry
\* _check_circle(a, b, c): [flag, x, o]; x in fixed point (FS per tenth)
\* lines 81-83: x = ox + sqrt((a.x - ox)^2 + (a.y - oy)^2), o = Point(ox, oy)
CircleAt(a, ox, oy, o) ==
    [flag |-> TRUE, o |-> o,
     x |-> ox + RSqrt((a.x * FS - ox) * (a.x * FS - ox)
                      + (a.y * FS - oy) * (a.y * FS - oy))]
\* lines 76-78: ox = oxn / G, oy = oyn / G, as floats and as the Point
CircleCentre(a, oxn, oyn, G) ==
    CircleAt(a, Round1(oxn * FS, G), Round1(oyn * FS, G), Point(oxn, G, oyn, G))
\* lines 72-78, on the code's A, B, C, D, E, F, G
CircleFrom(a, A, B, C, D, E, F, G) ==
    IF G = 0 THEN [flag |-> FALSE, x |-> 0, o |-> NoPoint]
    ELSE CircleCentre(a, D * E - B * F, A * F - C * E, G)
\* lines 64-70
CircleTerms(a, b, c, A, B, C, D) ==
    CircleFrom(a, A, B, C, D,
               A * (a.x + b.x) + B * (a.y + b.y),
               C * (a.x + c.x) + D * (a.y + c.y),
               2 * (A * (c.y - b.y) - B * (c.x - b.x)))
_check_circle(a, b, c) ==
    IF ((b.x - a.x) * (c.y - a.y) - (c.x - a.x) * (b.y - a.y)) > 0
    THEN [flag |-> FALSE, x |-> 0, o |-> NoPoint]
    ELSE CircleTerms(a, b, c, b.x - a.x, b.y - a.y, c.x - a.x, c.y - a.y)

\* nearest integer (an exact tie to even) to (-b - sqrt(disc)) / (2a), a # 0.
\* 2v <= t2 and 2v >= t2 are decided exactly, on integers.
QuadLe2(a, b, disc, t2) ==
    LET w == -b - t2 * a
    IN  IF a > 0 THEN w <= 0 \/ disc >= w * w ELSE w >= 0 /\ disc <= w * w
QuadGe2(a, b, disc, t2) ==
    LET w == -b - t2 * a
    IN  IF a > 0 THEN w >= 0 /\ disc <= w * w ELSE w <= 0 \/ disc >= w * w
QuadPick(ok) ==
    IF \E t \in ok : t % 2 = 0 /\ Cardinality(ok) > 1
    THEN CHOOSE t \in ok : t % 2 = 0
    ELSE CHOOSE t \in ok : TRUE
QuadNear(a, b, disc, est) ==
    QuadPick({t \in (est - 2)..(est + 2) :
                QuadGe2(a, b, disc, 2 * t - 1) /\ QuadLe2(a, b, disc, 2 * t + 1)})
QuadRootRound(a, b, disc) == QuadNear(a, b, disc, Round1(-b - ISqrt(disc), 2 * a))

\* _find_intersection(p0, p1, l).y : the y of the returned Point, tenths.
\* The quadratic's coefficients are the code's a, b, c multiplied by z0*z1,
\* which keeps them integers and leaves the root unchanged.
QuadOf(a, b, c) == QuadRootRound(a, b, b * b - 4 * a * c)
\* lines 192-198, with s the sign of z0 * z1
QuadTerms(p0, p1, l, z0, z1, s) ==
    QuadOf(s * (z1 - z0),
           s * (-2) * (p0.y * z1 - p1.y * z0),
           s * ((p0.y * p0.y + p0.x * p0.x - l * l) * z1
                - (p1.y * p1.y + p1.x * p1.x - l * l) * z0))
QuadZ(p0, p1, l, z0, z1) == QuadTerms(p0, p1, l, z0, z1, Sgn(z0) * Sgn(z1))
_find_intersection(p0, p1, l) ==
    IF p0.x = p1.x THEN Round1(p0.y + p1.y, 2)
    ELSE IF p1.x = l THEN p1.y
    ELSE IF p0.x = l THEN p0.y
    ELSE QuadZ(p0, p1, l, 2 * (p0.x - l), 2 * (p1.x - l))

\* _check_intersection(p, i): [flag, z]; i is an arc identity or None
_check_intersection(A, p, i) ==
    IF i = None \/ p.x = A[i].p.x THEN [flag |-> FALSE, z |-> NoPoint]
    ELSE LET ip == A[i].p
             a == IF A[i].pprev # None
                  THEN _find_intersection(A[A[i].pprev].p, ip, p.x) ELSE 0
             b == IF A[i].pnext # None
                  THEN _find_intersection(ip, A[A[i].pnext].p, p.x) ELSE 0
         IN  IF (A[i].pprev = None \/ a <= p.y) /\ (A[i].pnext = None \/ p.y <= b)
             THEN [flag |-> TRUE,
                   z |-> Point(ip.x * ip.x + (ip.y - p.y) * (ip.y - p.y) - p.x * p.x,
                               2 * ip.x - 2 * p.x, p.y, 1)]
             ELSE [flag |-> FALSE, z |-> NoPoint]

\* objects
ParabolicArc(p, pprev, pnext) ==
    [p |-> p, pprev |-> pprev, pnext |-> pnext, e |-> None, s0 |-> None, s1 |-> None]
LineSegment(start) == [start |-> start, end |-> NoPoint, done |-> FALSE]
FinishLastWins(seg, p) == [seg EXCEPT !.end = p, !.done = TRUE]
finish(seg, p) == IF seg.done THEN seg ELSE [seg EXCEPT !.end = p, !.done = TRUE]

Dist2(p, r) == (p.x - r.x) * (p.x - r.x) + (p.y - r.y) * (p.y - r.y)

\* The engine state the event handlers change, as one record:
\*   [arcs, evs, events, lec, maxr, output, head]
\* _check_potential_circle_event(i, x0); x0 in fixed point; PQ is self.points
\* lines 112-118: the circle is kept if it is as large as the largest so far
RecordLatest(S, entry) == [S EXCEPT !.maxr = entry.radius, !.lec = <<entry>>]
RecordNoReset(S, entry) ==
    IF entry.radius >= S.maxr
    THEN [S EXCEPT !.maxr = entry.radius, !.lec = Append(@, entry)]
    ELSE S
RecordCircle(S, entry) ==
    IF entry.radius = S.maxr THEN [S EXCEPT !.lec = Append(@, entry)]
    ELSE IF entry.radius > S.maxr
    THEN [S EXCEPT !.maxr = entry.radius, !.lec = <<entry>>]
    ELSE S
\* lines 98-99: i.e = Event(x, o, i); self.events.push(i.e)
ScheduleCircle(S, i, ev) ==
    [S EXCEPT !.evs = Append(@, ev), !.arcs[i].e = ev.id, !.events = push(@, ev)]
\* lines 102-111: is_empty, over the sites still in self.points
is_empty(PQ, tri, o, radius) ==
    ~\E k \in 1..Len(PQ.finder) :
        /\ PQ.finder[k].item \notin {tri[1], tri[2], tri[3]}
        /\ Dist2(PQ.finder[k].item, o) < radius
\* lines 98-120, tri = (i.pprev.p, i.p, i.pnext.p)
NewCircleEvent(S, PQ, i, tri, cc, id, radius) ==
    IF ~is_empty(PQ, tri, cc.o, radius)
    THEN ScheduleCircle(S, i, Event(cc.x, cc.o, i, id))
    ELSE RecordCircle(ScheduleCircle(S, i, Event(cc.x, cc.o, i, id)),
                      [o |-> cc.o, radius |-> radius, sites |-> tri, e |-> id])
\* lines 96-97: flag, x, o = self._check_circle(...); if flag and x > x0
CircleFound(S, PQ, i, x0, tri, cc) ==
    IF ~(cc.flag /\ cc.x > x0) THEN S
    ELSE NewCircleEvent(S, PQ, i, tri, cc, Len(S.evs) + 1, Dist2(cc.o, tri[2]))
CircleTriple(S, PQ, i, x0, tri) ==
    CircleFound(S, PQ, i, x0, tri, _check_circle(tri[1], tri[2], tri[3]))
\* lines 88-90: if i.e and i.e.x != self.x0: i.e.valid = False;  i.e = None
Invalidate(S, i, e) ==
    [(IF e # None /\ S.evs[e].x # 0 THEN [S EXCEPT !.evs[e].valid = FALSE] ELSE S)
        EXCEPT !.arcs[i].e = None]
_check_potential_circle_event(S, PQ, i, x0) ==
    IF S.arcs[i].pprev = None \/ S.arcs[i].pnext = None
    THEN Invalidate(S, i, S.arcs[i].e)
    ELSE CircleTriple(Invalidate(S, i, S.arcs[i].e), PQ, i, x0,
                      <<S.arcs[S.arcs[i].pprev].p, S.arcs[i].p,
                        S.arcs[S.arcs[i].pnext].p>>)

\* ------------------------------------------------------ event handlers
\* the scan `while i: ... i = i.pnext` of _add_parabolic_parabolicArc: the
\* first arc whose parabola p intersects, None when there is none, -1 when
\* the walk does not end (a cycle: the loop would not terminate)
RECURSIVE FindArc(_, _, _, _)
FindArc(A, p, i, fuel) ==
    IF i = None THEN None
    ELSE IF fuel = 0 THEN -1
    ELSE IF _check_intersection(A, p, i).flag THEN i
    ELSE FindArc(A, p, A[i].pnext, fuel - 1)

\* `while i.pnext: i = i.pnext`
RECURSIVE LastArc(_, _, _)
LastArc(A, i, fuel) ==
    IF A[i].pnext = None THEN i
    ELSE IF fuel = 0 THEN -1
    ELSE LastArc(A, A[i].pnext, fuel - 1)

\* lines 133-160: split arc i around the new site p, met at z; keep: the old
\* right neighbour stays in the beachline (the branch of lines 135-137)
SplitAt(S, PQ, p, i, z, keep) ==
    LET A == S.arcs
        nx == A[i].pnext
        d == Len(A) + 1                       \* the copy of arc i
        n == Len(A) + 2                       \* the arc of p
        e1 == Len(S.output) + 1
        e2 == Len(S.output) + 2
        A1 == Append(A, [ParabolicArc(A[i].p, i, IF keep THEN nx ELSE None)
                           EXCEPT !.s1 = A[i].s1])
        A3 == Append(IF keep THEN [A1 EXCEPT ![nx].pprev = d] ELSE A1,
                     ParabolicArc(p, i, d))
        A5 == [A3 EXCEPT ![d].pprev = n, ![i].pnext = n,
                         ![i].s1 = e1, ![n].s0 = e1, ![d].s0 = e2, ![n].s1 = e2]
        S1 == [S EXCEPT !.arcs = A5,
                        !.output = @ \o <<LineSegment(z), LineSegment(z)>>]
        S2 == _check_potential_circle_event(S1, PQ, n, p.x * FS)
        S3 == _check_potential_circle_event(S2, PQ, i, p.x * FS)
    IN  _check_potential_circle_event(S3, PQ, d, p.x * FS)
SplitArc(S, PQ, p, i) ==
    SplitAt(S, PQ, p, i, _check_intersection(S.arcs, p, i).z,
            /\ S.arcs[i].pnext # None
            /\ ~_check_intersection(S.arcs, p, S.arcs[i].pnext).flag)

\* lines 164-176: p intersects no arc, append it after the last arc
AppendArc(S, p, i) ==
    LET n == Len(S.arcs) + 1
        start == Point(0, 1, p.y + S.arcs[i].p.y, 2)
        e1 == Len(S.output) + 1
    IN  [S EXCEPT !.arcs = [Append(@, [ParabolicArc(p, i, None) EXCEPT !.s0 = e1])
                              EXCEPT ![i].pnext = n, ![i].s1 = e1],
                  !.output = Append(@, LineSegment(start))]

\* _add_parabolic_parabolicArc(p); hang = TRUE when one of its loops cannot end
\* lines 124-126: the first arc of the beachline
FirstArcWithEdge(S, p) ==
    [S EXCEPT !.arcs = Append(@, ParabolicArc(p, None, None)),
              !.head = Len(S.arcs) + 1,
              !.output = Append(@, LineSegment(p))]
FirstArc(S, p) ==
    [S EXCEPT !.arcs = Append(@, ParabolicArc(p, None, None)),
              !.head = Len(S.arcs) + 1]
_add_parabolic_parabolicArc(S, PQ, p) ==
    IF S.head = None
    THEN FirstArc(S, p)
    ELSE LET i == FindArc(S.arcs, p, S.head, Len(S.arcs))
         IN  IF i = -1 THEN [S EXCEPT !.hang = TRUE]
             ELSE IF i # None THEN SplitArc(S, PQ, p, i)
             ELSE LET t == LastArc(S.arcs, S.head, Len(S.arcs))
                  IN  IF t = -1 THEN [S EXCEPT !.hang = TRUE]
                      ELSE AppendArc(S, p, t)

\* lines 376-382: take the arc a out of the beachline; s is the new edge
UnlinkPrevNoEdge(A, a, s) ==
    IF A[a].pprev # None THEN [A EXCEPT ![A[a].pprev].pnext = A[a].pnext] ELSE A
UnlinkPrev(A, a, s) ==
    IF A[a].pprev # None
    THEN [A EXCEPT ![A[a].pprev].pnext = A[a].pnext, ![A[a].pprev].s1 = s]
    ELSE A
UnlinkNextNoBack(A, a, s) ==
    IF A[a].pnext # None THEN [A EXCEPT ![A[a].pnext].s0 = s] ELSE A
UnlinkNext(A, a, s) ==
    IF A[a].pnext # None
    THEN [A EXCEPT ![A[a].pnext].pprev = A[a].pprev, ![A[a].pnext].s0 = s]
    ELSE A
\* lines 385-388: if a.s0: a.s0.finish(e.p)
FinishAt(O, k, p) == IF k # None THEN [O EXCEPT ![k] = finish(@, p)] ELSE O
\* lines 391-394: if a.pprev: self._check_potential_circle_event(a.pprev, e.x)
RecheckSkip(S, PQ, i, x) == S
Recheck(S, PQ, i, x) ==
    IF i # None THEN _check_potential_circle_event(S, PQ, i, x) ELSE S
\* lines 385-394, arc being the arc of the event after the unlinking
CircleVertex(S, PQ, e, arc) ==
    Recheck(Recheck([S EXCEPT !.output = FinishAt(FinishAt(@, arc.s0, e.p),
                                                  arc.s1, e.p)],
                    PQ, arc.pprev, e.x),
            PQ, arc.pnext, e.x)
CircleUnlinked(S, PQ, e, A) ==
    CircleVertex([S EXCEPT !.arcs = A, !.output = Append(@, LineSegment(e.p))],
                 PQ, e, A[e.a])
CircleEventAlways(S, PQ, e) ==
    CircleUnlinked(S, PQ, e,
                   UnlinkNext(UnlinkPrev(S.arcs, e.a, Len(S.output) + 1),
                              e.a, Len(S.output) + 1))
\* _process_circle_event(), after e = self.events.pop()
CircleEvent(S, PQ, e) ==
    IF ~e.valid THEN S
    ELSE CircleUnlinked(S, PQ, e,
                        UnlinkNext(UnlinkPrev(S.arcs, e.a, Len(S.output) + 1),
                                   e.a, Len(S.output) + 1))

\* ------------------------------------------------------------ clipping
\* With length = sqrt(n), n = dx*dx + dy*dy, every float of the clipping code
\* is a/d + w/length for integers a, d > 0, w: a Num [a, d, w].  Its tests and
\* its rounding into a Point are decided exactly, on integers.
\* u * sqrt(n) <= v, and u * sqrt(n) < v
SurdLe(u, n, v) == IF u >= 0 THEN v >= 0 /\ u * u * n <= v * v
                   ELSE v >= 0 \/ u * u * n >= v * v
SurdLt(u, n, v) == ~SurdLe(-u, n, -v)

Num(a, d, w) == IF d > 0 THEN [a |-> a, d |-> d, w |-> w]
                ELSE [a |-> -a, d |-> -d, w |-> w]
\* the Num equals the integer k
NumEq(v, n, k) ==
    IF v.w = 0 THEN v.a = k * v.d
    ELSE /\ SurdLe(k * v.d - v.a, n, v.w * v.d)
         /\ SurdLe(-(k * v.d - v.a), n, -(v.w * v.d))
\* Point's rounding of the Num: nearest integer, an exact tie to even
NumPick(ok) ==
    IF \E k \in ok : k % 2 = 0 THEN CHOOSE k \in ok : k % 2 = 0
    ELSE CHOOSE k \in ok : TRUE
NumNear(v, n, est) ==
    NumPick({k \in (est - 1)..(est + 1) :
               /\ SurdLe((2 * k - 1) * v.d - 2 * v.a, n, 2 * v.w * v.d)
               /\ SurdLe(-((2 * k + 1) * v.d - 2 * v.a), n, -(2 * v.w * v.d))})
NumEst(v, l) == Round1(v.a * l + v.w * LS * v.d, v.d * l)
NumRound(v, n) ==
    IF v.w = 0 THEN Round1(v.a, v.d)
    ELSE NumNear(v, n, NumEst(v, RSqrt(n * LS * LS)))

\* lines 258-274 (sg = 1) and 277-293 (sg = -1): the ray from the midpoint
\* (M/2, N/2) along sg * (nx, ny) = sg * (-dy, dx) / length, cut at the box.
\* t is margin ("m"), the x cut (xB - mx) / nx ("x") or the y cut ("y").
\* [ok, x, y]; ok = FALSE is ZeroDivisionError.
\* the end point mx + t * nx, my + t * ny
ClipPoint(M, N, dx, dy, sg, margin, kind, t) ==
    IF kind = "m"
    THEN [ok |-> TRUE, x |-> Num(M, 2, -sg * dy * margin),
                       y |-> Num(N, 2, sg * dx * margin)]
    ELSE [ok |-> TRUE, x |-> Num(M * t.d - 2 * sg * dy * t.a, 2 * t.d, 0),
                       y |-> Num(N * t.d + 2 * sg * dx * t.a, 2 * t.d, 0)]
\* which of margin, the x cut tx and the y cut ty the code's t ends as
ClipKind(n, margin, xcut, ycut, tx, ty) ==
    IF ycut /\ ~(IF xcut THEN tx.a * ty.d <= ty.a * tx.d
                 ELSE ~SurdLt(ty.a, n, margin * ty.d))
    THEN "y"
    ELSE IF xcut THEN "x" ELSE "m"
ClipT(M, N, dx, dy, sg, margin, kind, tx, ty) ==
    ClipPoint(M, N, dx, dy, sg, margin, kind, IF kind = "x" THEN tx ELSE ty)
ClipCuts(M, N, dx, dy, sg, margin, n, xcut, ycut, tx, ty) ==
    IF (xcut /\ dy = 0) \/ (ycut /\ dx = 0)
    THEN [ok |-> FALSE, x |-> Num(0, 1, 0), y |-> Num(0, 1, 0)]
    ELSE ClipT(M, N, dx, dy, sg, margin, ClipKind(n, margin, xcut, ycut, tx, ty),
               tx, ty)
\* pxlo: px < x0, pxhi: px > x1, pylo: py < y0, pyhi: py > y1; t / length for
\* the two cuts as fractions with positive denominators
ClipSides(M, N, dx, dy, sg, margin, bx, by, n, pxlo, pxhi, pylo, pyhi) ==
    ClipCuts(M, N, dx, dy, sg, margin, n, pxlo \/ pxhi, pylo \/ pyhi,
             Num(sg * (2 * (IF pxlo THEN 0 ELSE bx) - M), -2 * dy, 0),
             Num(sg * (2 * (IF pylo THEN 0 ELSE by) - N), 2 * dx, 0))
ClipLength(M, N, dx, dy, sg, margin, bx, by, n) ==
    ClipSides(M, N, dx, dy, sg, margin, bx, by, n,
              SurdLt(M, n, 2 * sg * dy * margin),
              SurdLt(-(M - 2 * bx), n, -(2 * sg * dy * margin)),
              SurdLt(N, n, -(2 * sg * dx * margin)),
              SurdLt(-(N - 2 * by), n, 2 * sg * dx * margin))
ClipRay(M, N, dx, dy, sg, margin, bx, by) ==
    ClipLength(M, N, dx, dy, sg, margin, bx, by, dx * dx + dy * dy)

\* lines 296-302: the end that is not the edge's start finishes it
ClipEnd(O, s1, n, r1, r2) ==
    IF ~r1.ok \/ ~r2.ok THEN O
    ELSE [O EXCEPT ![s1] = finish(@,
            IF NumEq(r2.x, n, O[s1].start.x) /\ NumEq(r2.y, n, O[s1].start.y)
            THEN [x |-> NumRound(r1.x, n), y |-> NumRound(r1.y, n)]
            ELSE [x |-> NumRound(r2.x, n), y |-> NumRound(r2.y, n)])]
\* lines 235-293, on M = 2 mx, N = 2 my, dx, dy
ClipBisector(O, s1, M, N, dx, dy, margin, bx, by) ==
    IF dx = 0 /\ dy = 0 THEN O
    ELSE ClipEnd(O, s1, dx * dx + dy * dy,
                 ClipRay(M, N, dx, dy, 1, margin, bx, by),
                 ClipRay(M, N, dx, dy, -1, margin, bx, by))
ClipPair(O, s1, p1, p2, bx, by) ==
    ClipBisector(O, s1, p1.x + p2.x, p1.y + p2.y, p2.x - p1.x, p2.y - p1.y,
                 Max(bx - 0, by - 0), bx, by)
\* the body of the loop of _complete_unfinished_edges for arc i (i.pnext set)
ClipArc(A, O, i, bx, by) ==
    IF A[i].s1 = None THEN O
    ELSE ClipPair(O, A[i].s1, A[i].p, A[A[i].pnext].p, bx, by)

\* _complete_unfinished_edges: `while i and i.pnext`; <<>> when the walk
\* cannot end
RECURSIVE _complete_unfinished_edges(_, _, _, _, _, _)
_complete_unfinished_edges(A, O, i, bx, by, fuel) ==
    IF i = None THEN O
    ELSE IF A[i].pnext = None THEN O
    ELSE IF fuel = 0 THEN <<>>
    ELSE _complete_unfinished_edges(A, ClipArc(A, O, i, bx, by), A[i].pnext,
                                    bx, by, fuel - 1)

\* lines 315-344, on M = 2 mid_x, N = 2 mid_y, dx, dy, n = dx*dx + dy*dy
TwoPointsSegment(M, N, dx, dy, n, margin, bx, by) ==
    finish(LineSegment(IF dx = 0 THEN Point(M - 2 * bx, 2, N, 2)
                       ELSE IF dy = 0 THEN Point(M, 2, N - 2 * by, 2)
                       ELSE [x |-> NumRound(Num(M, 2, (-dy) * margin), n),
                             y |-> NumRound(Num(N, 2, dx * margin), n)]),
           IF dx = 0 THEN Point(M + 2 * bx, 2, N, 2)
           ELSE IF dy = 0 THEN Point(M, 2, N + 2 * by, 2)
           ELSE [x |-> NumRound(Num(M, 2, dy * margin), n),
                 y |-> NumRound(Num(N, 2, (-dx) * margin), n)])
TwoPoints(p1, p2, bx, by) ==
    TwoPointsSegment(p1.x + p2.x, p1.y + p2.y, p2.x - p1.x, p2.y - p1.y,
                     Dist2(p1, p2), Max(bx - 0, by - 0), bx, by)
\* _handle_two_points_case: the segment appended (PQ is self.points before)
_handle_two_points_case(PQ, bx, by) ==
    TwoPoints(PQ.finder[1].item, pop(PQ).Q.finder[1].item, bx, by)

\* ------------------------------------------------------- the engine
Grid == {<<x, y>> : x \in Coords, y \in Coords}
Inputs == UNION {[1..n -> Grid] : n \in 0..MaxSites}

\* _add_points
RECURSIVE _add_points(_, _, _)
_add_points(Q, in, k) ==
    IF k > Len(in) THEN Q
    ELSE _add_points(push(Q, Point(10 * in[k][1], 1, 10 * in[k][2], 1)), in, k + 1)

Init ==
    /\ sites \in Inputs
    /\ x1 = 30
    /\ y1 = 30
    /\ points = _add_points(EmptyQueue, sites, 1)
    /\ events = EmptyQueue
    /\ evs = <<>>
    /\ arcs = <<>>
    /\ parabolicArc = None
    /\ output = <<>>
    /\ largest_empty_circles = <<>>
    /\ max_circle_radius = 0
    /\ trace = <<>>
    /\ pc = "start"
    /\ q = EmptyQueue
    /\ qlog = <<>>

Engine == [arcs |-> arcs, evs |-> evs, events |-> events,
           lec |-> largest_empty_circles, maxr |-> max_circle_radius,
           output |-> output, head |-> parabolicArc, hang |-> FALSE]

\* where generate_voronoi_diagram is after a handler returns
PcAfterNoDrain(PQ, EQ) == IF ~empty(PQ) THEN "sweep" ELSE "clip"
PcAfter(PQ, EQ) == IF ~empty(PQ) THEN "sweep" ELSE IF ~empty(EQ) THEN "drain" ELSE "clip"

Store(S, PQ) ==
    /\ arcs' = S.arcs
    /\ evs' = S.evs
    /\ events' = S.events
    /\ largest_empty_circles' = S.lec
    /\ max_circle_radius' = S.maxr
    /\ output' = S.output
    /\ parabolicArc' = S.head
    /\ points' = PQ
    /\ pc' = IF S.hang THEN "hang" ELSE PcAfter(PQ, S.events)
    /\ UNCHANGED <<sites, x1, y1, q, qlog>>

\* generate_voronoi_diagram, lines 406-408
HandleTwoPoints ==
    /\ pc = "start"
    /\ Len(points.finder) = 2
    /\ output' = Append(output, _handle_two_points_case(points, x1, y1))
    /\ points' = pop(points).Q
    /\ pc' = "done"
    /\ UNCHANGED <<sites, x1, y1, events, evs, arcs, parabolicArc,
                   largest_empty_circles, max_circle_radius, trace, q, qlog>>

StartSweep ==
    /\ pc = "start"
    /\ Len(points.finder) # 2
    /\ pc' = PcAfter(points, events)
    /\ UNCHANGED <<sites, x1, y1, points, events, evs, arcs, parabolicArc, output,
                   largest_empty_circles, max_circle_radius, trace, q, qlog>>

\* the test of _process_all_events, lines 349-350, and the queues it leaves
SitesFirst(PQ, EQ) == FALSE
CircleFirstStrict(PQ, EQ) == ~empty(EQ) /\ top(EQ).item.x < top(PQ).item.x * FS
CircleFirst(PQ, EQ) == ~empty(EQ) /\ top(EQ).item.x <= top(PQ).item.x * FS

\* _process_site_event: r is self.points.pop(), EQ is self.events
StoreSite(S, r) ==
    /\ Store(S, r.Q)
    /\ trace' = Append(trace, [kind |-> "site", x |-> r.item.x * FS,
                               valid |-> TRUE, phase |-> "sweep", id |-> None,
                               p |-> r.item])
ProcessSite(r, EQ) ==
    StoreSite(_add_parabolic_parabolicArc([Engine EXCEPT !.events = EQ], r.Q, r.item), r)

ProcessSiteEvent ==
    /\ pc = "sweep"
    /\ ~CircleFirst(points, events)
    /\ ProcessSite(pop(IF empty(events) THEN points ELSE top(points).Q),
                   IF empty(events) THEN events ELSE top(events).Q)

\* _process_circle_event, in the main loop (sweep) and in the drain loop;
\* r is self.events.pop()
StoreCircle(S, PQ, e, phase) ==
    /\ Store(S, PQ)
    /\ trace' = Append(trace, [kind |-> "circle", x |-> e.x, valid |-> e.valid,
                               phase |-> phase, id |-> e.id, p |-> e.p])
CircleStep(phase, PQ, EQ, e) ==
    StoreCircle(CircleEvent([Engine EXCEPT !.events = EQ], PQ, e), PQ, e, phase)
ProcessCircle(phase, PQ, r) == CircleStep(phase, PQ, r.Q, evs[r.item.id])

ProcessCircleEvent ==
    /\ pc = "sweep"
    /\ CircleFirst(points, events)
    /\ ProcessCircle("sweep", top(points).Q, pop(top(events).Q))

ProcessRemainingEvent ==
    /\ pc = "drain"
    /\ ProcessCircle("drain", points, pop(events))

StoreEdges(O) ==
    IF O = <<>> /\ output # <<>>
    THEN pc' = "hang" /\ output' = output
    ELSE pc' = "done" /\ output' = O
CompleteUnfinishedEdges ==
    /\ pc = "clip"
    /\ StoreEdges(_complete_unfinished_edges(arcs, output, parabolicArc, x1, y1,
                                             Len(arcs)))
    /\ UNCHANGED <<sites, x1, y1, points, events, evs, arcs, parabolicArc,
                   largest_empty_circles, max_circle_radius, trace, q, qlog>>

Next ==
    \/ HandleTwoPoints
    \/ StartSweep
    \/ ProcessSiteEvent
    \/ ProcessCircleEvent
    \/ ProcessRemainingEvent
    \/ CompleteUnfinishedEdges

Spec == Init /\ [][Next]_vars

\* ------------------------------------- the schedule, driven directly
\* Events with two sweep positions and two centres: four logical keys; every
\* push is of a new Event object (its id).
QXs == {0, 1}
QPs == {[x |-> 0, y |-> 0], [x |-> 0, y |-> 1]}

QInit == sites = <<>> /\ Init

QFrame == UNCHANGED <<pc, sites, x1, y1, points, events, evs, arcs, parabolicArc,
                      output, largest_empty_circles, max_circle_radius, trace>>

QPush ==
    /\ Len(qlog) < MaxOps
    /\ \E x \in QXs, p \in QPs :
         LET it == Event(x, p, None, Len(qlog) + 1)
         IN  /\ q' = push(q, it)
             /\ qlog' = Append(qlog, [op |-> "push", ok |-> TRUE, item |-> it])
    /\ QFrame

QPop ==
    /\ Len(qlog) < MaxOps
    /\ LET r == pop(q)
       IN  /\ q' = r.Q
           /\ qlog' = Append(qlog, [op |-> "pop", ok |-> r.ok,
                                    item |-> IF r.ok THEN r.item
                                             ELSE Event(0, NoPoint, None, None)])
    /\ QFrame

QTop ==
    /\ Len(qlog) < MaxOps
    /\ LET r == top(q)
       IN  /\ q' = r.Q
           /\ qlog' = Append(qlog, [op |-> "top", ok |-> r.ok,
                                    item |-> IF r.ok THEN r.item
                                             ELSE Event(0, NoPoint, None, None)])
    /\ QFrame

QRemove ==
    /\ Len(qlog) < MaxOps
    /\ \E i \in 1..Len(q.finder) :
         /\ q' = remove(q, q.finder[i].item)
         /\ qlog' = Append(qlog, [op |-> "remove", ok |-> TRUE,
                                  item |-> q.finder[i].item])
    /\ QFrame

QNext == QPush \/ QPop \/ QTop \/ QRemove

QSpec == QInit /\ [][QNext]_vars

\* --------------------------------------- a LineSegment, driven directly
\* output holds the one segment, qlog the finish calls made on it
EPs == {[x |-> 0, y |-> 0], [x |-> 5, y |-> 8], [x |-> 10, y |-> 0]}

EInit ==
    /\ sites = <<>>
    /\ x1 = 30
    /\ y1 = 30
    /\ points = EmptyQueue
    /\ events = EmptyQueue
    /\ evs = <<>>
    /\ arcs = <<>>
    /\ parabolicArc = None
    /\ \E p \in EPs : output = <<LineSegment(p)>>
    /\ largest_empty_circles = <<>>
    /\ max_circle_radius = 0
    /\ trace = <<>>
    /\ pc = "done"
    /\ q = EmptyQueue
    /\ qlog = <<>>

EFinish ==
    /\ Len(qlog) < MaxOps
    /\ \E p \in EPs :
         /\ output' = [output EXCEPT ![1] = finish(@, p)]
         /\ qlog' = Append(qlog, [op |-> "finish", ok |-> TRUE, item |-> p])
    /\ UNCHANGED <<pc, sites, x1, y1, points, events, evs, arcs, parabolicArc,
                   largest_empty_circles, max_circle_radius, trace, q>>

ENext == EFinish

ESpec == EInit /\ [][ENext]_vars

\* ------------------------------- the engine, on sites left of the box
\* Voronoi(points, w, h) takes sites of any sign; _setup_bounds keeps x0 = 0
NPts == {<<-4, 2>>, <<-2, 0>>, <<-2, 4>>, <<-1, 2>>, <<0, 2>>}
NInputs == UNION {[1..n -> NPts] : n \in 0..MaxSites}

NInit ==
    /\ sites \in NInputs
    /\ x1 = 30
    /\ y1 = 30
    /\ points = _add_points(EmptyQueue, sites, 1)
    /\ events = EmptyQueue
    /\ evs = <<>>
    /\ arcs = <<>>
    /\ parabolicArc = None
    /\ output = <<>>
    /\ largest_empty_circles = <<>>
    /\ max_circle_radius = 0
    /\ trace = <<>>
    /\ pc = "start"
    /\ q = EmptyQueue
    /\ qlog = <<>>

NSpec == NInit /\ [][Next]_vars

\* generate_voronoi_diagram runs on until it returns: weak fairness of Next,
\* WF_vars(Next), with ENABLED <<Next>>_vars written out: a step is possible
\* in every state but the final one and the one of a loop that cannot end
Running == pc \notin {"done", "hang"}
FairSpec == Spec /\ ([]<>(~Running) \/ []<><<Next>>_vars)

\* ----------------------------- _check_circle's tests, in float arithmetic
\* A site's coordinate k/10 is the double nearest to it, and every - and * of
\* _check_circle rounds its exact result to 53 significant bits, ties to even.
\* Magnitudes are multi-limb naturals (least limb first, base BB, no leading
\* zero limb) in fixed point: coordinates and their differences in units of
\* 2^-FX, products of two of them in units of 2^-(2 FX).
BB == 4096
BBits == 12
FX == 60
Mant == 53
Pow2(r) == IF r = 0 THEN 1 ELSE IF r = 1 THEN 2 ELSE IF r = 2 THEN 4
           ELSE IF r = 3 THEN 8 ELSE IF r = 4 THEN 16 ELSE IF r = 5 THEN 32
           ELSE IF r = 6 THEN 64 ELSE IF r = 7 THEN 128 ELSE IF r = 8 THEN 256
           ELSE IF r = 9 THEN 512 ELSE IF r = 10 THEN 1024
           ELSE IF r = 11 THEN 2048 ELSE 4096
RECURSIVE BTrim(_)
BTrim(a) ==
    IF a = <<>> THEN a
    ELSE IF a[Len(a)] = 0 THEN BTrim(SubSeq(a, 1, Len(a) - 1)) ELSE a
BLimb(a, i) == IF i >= 1 /\ i <= Len(a) THEN a[i] ELSE 0
\* the limbs of the number whose limb i is cols[i], any integers
RECURSIVE BCarry(_, _, _)
BCarry(cols, i, carry) ==
    IF i > Len(cols)
    THEN IF carry = 0 THEN <<>>
         ELSE <<carry % BB>> \o BCarry(cols, i, carry \div BB)
    ELSE <<(cols[i] + carry) % BB>>
             \o BCarry(cols, i + 1, (cols[i] + carry) \div BB)
BAdd(a, b) ==
    BTrim(BCarry([i \in 1..Max(Len(a), Len(b)) |-> BLimb(a, i) + BLimb(b, i)], 1, 0))
\* a - b, for a >= b
BSub(a, b) ==
    BTrim(BCarry([i \in 1..Len(a) |-> a[i] - BLimb(b, i)], 1, 0))
RECURSIVE BCmpAt(_, _, _)
BCmpAt(a, b, i) ==
    IF i = 0 THEN 0
    ELSE IF a[i] # b[i] THEN Sgn(a[i] - b[i])
    ELSE BCmpAt(a, b, i - 1)
BCmp(a, b) ==
    IF Len(a) # Len(b) THEN Sgn(Len(a) - Len(b)) ELSE BCmpAt(a, b, Len(a))
RECURSIVE BColumn(_, _, _, _)
BColumn(a, b, k, i) ==
    IF i > Len(a) THEN 0
    ELSE a[i] * BLimb(b, k + 1 - i) + BColumn(a, b, k, i + 1)
BMul(a, b) ==
    IF a = <<>> \/ b = <<>> THEN <<>>
    ELSE BTrim(BCarry([k \in 1..(Len(a) + Len(b) - 1) |-> BColumn(a, b, k, 1)], 1, 0))
\* floor(a / d) and a mod d for a small d: the limbs from the top down
RECURSIVE BRemFrom(_, _, _, _)
BRemFrom(a, d, i, rem) ==
    IF i = 0 THEN rem ELSE BRemFrom(a, d, i - 1, (rem * BB + a[i]) % d)
RECURSIVE BQuoFrom(_, _, _, _)
BQuoFrom(a, d, i, rem) ==
    IF i = 0 THEN <<>>
    ELSE Append(BQuoFrom(a, d, i - 1, (rem * BB + a[i]) % d),
                (rem * BB + a[i]) \div d)
RECURSIVE TopBits(_)
TopBits(v) == IF v = 0 THEN 0 ELSE 1 + TopBits(v \div 2)
BitLen(a) == IF a = <<>> THEN 0 ELSE BBits * (Len(a) - 1) + TopBits(a[Len(a)])
\* bit n of a (bit 0 the least), and whether a bit below bit n is set
BBit(a, n) == (BLimb(a, n \div BBits + 1) \div Pow2(n % BBits)) % 2
BSticky(a, n) ==
    \/ \E i \in 1..Min(Len(a), n \div BBits) : a[i] # 0
    \/ BLimb(a, n \div BBits + 1) % Pow2(n % BBits) # 0
\* floor(a / 2^n) and a * 2^n
BShr(a, n) ==
    BTrim([i \in 1..Max(0, Len(a) - n \div BBits) |->
              BLimb(a, i + n \div BBits) \div Pow2(n % BBits)
              + (BLimb(a, i + n \div BBits + 1) % Pow2(n % BBits))
                    * Pow2(BBits - (n % BBits))])
BShl(a, n) ==
    IF a = <<>> THEN a
    ELSE BTrim([i \in 1..(n \div BBits) |-> 0]
               \o BCarry([i \in 1..Len(a) |-> a[i] * Pow2(n % BBits)], 1, 0))
\* round to nearest, ties to even, at bit n: the float nearest to a (+ a
\* fraction, when inexact) whose last place is bit n
BRoundAt(a, n, inexact) ==
    IF BBit(a, n - 1) = 1 /\ (inexact \/ BSticky(a, n - 1) \/ BBit(a, n) = 1)
    THEN BShl(BAdd(BShr(a, n), <<1>>), n)
    ELSE BShl(BShr(a, n), n)
Round53(a, inexact) ==
    IF BitLen(a) <= Mant THEN a ELSE BRoundAt(a, BitLen(a) - Mant, inexact)

\* a float: its sign and its magnitude
Float(s, m) == [s |-> IF m = <<>> THEN 0 ELSE s, m |-> m]
\* Point's coordinate: float("k/10") for k tenths >= 0
Coord(k) ==
    Float(1, Round53(BTrim(BQuoFrom(BShl(<<k>>, FX), 10, Len(BShl(<<k>>, FX)), 0)),
                     BRemFrom(BShl(<<k>>, FX), 10, Len(BShl(<<k>>, FX)), 0) # 0))
\* the order of two floats of one unit: -1, 0, 1
FCmp(u, v) ==
    IF u.s # v.s THEN Sgn(u.s - v.s)
    ELSE u.s * BCmp(u.m, v.m)
\* u - v of two floats of one unit, rounded
FSubMag(u, v, c) ==
    IF u.s = 0 THEN Float(-v.s, v.m)
    ELSE IF v.s = 0 THEN u
    ELSE IF u.s # v.s THEN Float(u.s, Round53(BAdd(u.m, v.m), FALSE))
    ELSE IF c = 0 THEN Float(0, <<>>)
    ELSE IF c > 0 THEN Float(u.s, Round53(BSub(u.m, v.m), FALSE))
    ELSE Float(-u.s, Round53(BSub(v.m, u.m), FALSE))
FSub(u, v) == FSubMag(u, v, BCmp(u.m, v.m))
\* u * v, rounded, in the unit of products
FMul(u, v) == Float(u.s * v.s, Round53(BMul(u.m, v.m), FALSE))

\* line 60: the sign of (b.x - a.x) * (c.y - a.y) - (c.x - a.x) * (b.y - a.y),
\* and line 70: the sign of G; a float difference has the sign of the exact one
TurnSign(ax, ay, bx, by, cx, cy) ==
    FCmp(FMul(FSub(bx, ax), FSub(cy, ay)), FMul(FSub(cx, ax), FSub(by, ay)))
GSign(ax, ay, bx, by, cx, cy) ==
    FCmp(FMul(FSub(bx, ax), FSub(cy, by)), FMul(FSub(by, ay), FSub(cx, bx)))
\* lines 60-73: the flag of _check_circle(a, b, c) when it has passed both tests
CircleTestOn(ax, ay, bx, by, cx, cy) ==
    /\ ~(TurnSign(ax, ay, bx, by, cx, cy) > 0)
    /\ GSign(ax, ay, bx, by, cx, cy) # 0
CircleTest(a, b, c) ==
    CircleTestOn(Coord(a[1]), Coord(a[2]), Coord(b[1]), Coord(b[2]),
                 Coord(c[1]), Coord(c[2]))

\* _check_circle applied to three sites a, b, c given in tenths
CTenths == 0..3
CGrid == {<<x, y>> : x \in CTenths, y \in CTenths}
CInit ==
    /\ sites \in [1..3 -> CGrid]
    /\ x1 = 30
    /\ y1 = 30
    /\ points = EmptyQueue
    /\ events = EmptyQueue
    /\ evs = <<>>
    /\ arcs = <<>>
    /\ parabolicArc = None
    /\ output = <<>>
    /\ largest_empty_circles = <<>>
    /\ max_circle_radius = 0
    /\ trace = <<>>
    /\ pc = "done"
    /\ q = EmptyQueue
    /\ qlog = <<>>

CCheck ==
    /\ qlog = <<>>
    /\ qlog' = <<[op |-> "_check_circle",
                  ok |-> CircleTest(sites[1], sites[2], sites[3]),
                  item |-> sites]>>
    /\ UNCHANGED <<pc, sites, x1, y1, points, events, evs, arcs, parabolicArc,
                   output, largest_empty_circles, max_circle_radius, trace, q>>

CNext == CCheck

CSpec == CInit /\ [][CNext]_vars

\* ---------------------------------------------------------- the claims
SitePts == {Point(10 * sites[k][1], 1, 10 * sites[k][2], 1) : k \in 1..Len(sites)}
Cross(a, b, c) == (b.x - a.x) * (c.y - a.y) - (c.x - a.x) * (b.y - a.y)
NonCollinear(S) == \E a \in S, b \in S, c \in S : Cross(a, b, c) # 0
Done == {k \in 1..Len(output) : output[k].done}
InBox(p) == 0 <= p.x /\ p.x <= x1 /\ 0 <= p.y /\ p.y <= y1
RECURSIVE GCD(_, _)
GCD(a, b) == IF b = 0 THEN a ELSE GCD(b, a % b)
\* the circumcentre of a, b, c, as a Point
Circumcentre(a, b, c) ==
    LET A == b.x - a.x
        B == b.y - a.y
        C == c.x - a.x
        D == c.y - a.y
        E == A * (a.x + b.x) + B * (a.y + b.y)
        F == C * (a.x + c.x) + D * (a.y + c.y)
        G == 2 * (A * D - B * C)
    IN  Point(D * E - B * F, G, A * F - C * E, G)

\* C1 (as claimed): with at least three distinct sites, not all collinear,
\* every edge of the output list is finished once generate_voronoi_diagram
\* has returned.
C1_EdgeCompleteness ==
    (pc = "done" /\ Cardinality(SitePts) >= 3 /\ NonCollinear(SitePts))
        => \A k \in 1..Len(output) : output[k].done

\* C2 (as claimed): no input site, processed or not, other than the three
\* defining sites lies strictly inside a circle of the final result.
C2_Emptiness ==
    pc = "done" =>
        \A i \in 1..Len(largest_empty_circles) :
            LET c == largest_empty_circles[i]
            IN  \A s \in SitePts :
                    s \notin {c.sites[1], c.sites[2], c.sites[3]}
                        => ~(Dist2(s, c.o) < c.radius)

\* C3 (as claimed): two distinct sites, in either order, give exactly one
\* edge, finished, on their perpendicular bisector: its midpoint is the
\* sites' midpoint and its direction is perpendicular to the segment joining
\* them, each up to the rounding of the two endpoints to one decimal.
C3_TwoSites ==
    (pc = "done" /\ Cardinality(SitePts) = 2) =>
        /\ Len(output) = 1
        /\ output[1].done
        /\ LET a == CHOOSE p \in SitePts : TRUE
               b == CHOOSE p \in SitePts : p # a
               s == output[1].start
               e == output[1].end
           IN  /\ s # e
               /\ Abs(s.x + e.x - (a.x + b.x)) <= 1
               /\ Abs(s.y + e.y - (a.y + b.y)) <= 1
               /\ Abs((e.x - s.x) * (b.x - a.x) + (e.y - s.y) * (b.y - a.y))
                      <= Abs(b.x - a.x) + Abs(b.y - a.y)

\* C4 (as claimed): three non-collinear sites give exactly 3 finished edges,
\* each with the circumcentre as an endpoint.
C4_ThreeSitesEdges ==
    (pc = "done" /\ Cardinality(SitePts) = 3 /\ NonCollinear(SitePts)) =>
        LET a == CHOOSE p \in SitePts : TRUE
            b == CHOOSE p \in SitePts \ {a} : TRUE
            c == CHOOSE p \in SitePts \ {a, b} : TRUE
            o == Circumcentre(a, b, c)
        IN  /\ Cardinality(Done) = 3
            /\ \A k \in Done : output[k].start = o \/ output[k].end = o

\* |sqrt(r2) - sqrt(pn / pd)| <= 1e-6 units = 1e-5 tenths, r2 and pn/pd in
\* tenths squared: |r2 - pn/pd| <= 1e-5 * (sqrt(r2) + sqrt(pn/pd)), the sum
\* of the roots taken from above
WithinTol(r2, pn, pd) ==
    LET diff == Abs(r2 * pd - pn)
        sup == ISqrt(r2) + ISqrt(pn \div pd) + 2
    IN  diff <= pd * sup /\ diff * 100000 <= pd * sup

\* C5 (as claimed): three non-collinear sites give exactly one largest empty
\* circle, defined by the three sites, whose radius is the triangle's
\* circumradius |ab||bc||ca| / (2 |cross|) within 1e-6.
C5_ThreeSitesCircle ==
    (pc = "done" /\ Cardinality(SitePts) = 3 /\ NonCollinear(SitePts)) =>
        LET a == CHOOSE p \in SitePts : TRUE
            b == CHOOSE p \in SitePts \ {a} : TRUE
            c == CHOOSE p \in SitePts \ {a, b} : TRUE
            pn == Dist2(a, b) * Dist2(b, c) * Dist2(c, a)
            pd == 4 * Cross(a, b, c) * Cross(a, b, c)
            g == GCD(pn, pd)
        IN  /\ Len(largest_empty_circles) = 1
            /\ LET l == largest_empty_circles[1]
               IN  /\ {l.sites[1], l.sites[2], l.sites[3]} = SitePts
                   /\ WithinTol(l.radius, pn \div g, pd \div g)

\* C6 (as claimed): with no site on the boundary of the box, both endpoints
\* of every finished edge lie in the box.
C6_Containment ==
    (pc = "done" /\ \A s \in SitePts : 0 < s.x /\ s.x < x1 /\ 0 < s.y /\ s.y < y1)
        => \A k \in Done : InBox(output[k].start) /\ InBox(output[k].end)

\* C7 (as claimed): the circle event for which a circle of the final result
\* was recorded has been popped while valid (its arc collapsed at the
\* centre) before construction ends.
C7_CircleAtVertex ==
    pc = "done" =>
        \A i \in 1..Len(largest_empty_circles) :
            \E k \in 1..Len(trace) :
                /\ trace[k].kind = "circle"
                /\ trace[k].id = largest_empty_circles[i].e
                /\ trace[k].valid

\* the x of the live items of a schedule, and the least of a set of integers
LiveXs(Q) == {Q.finder[i].item.x : i \in 1..Len(Q.finder)}
MinOf(S) == CHOOSE m \in S : \A n \in S : m <= n

\* C8: while the site schedule is non-empty the engine processes a circle
\* event exactly when the circle schedule is non-empty and its least x is <=
\* the site schedule's least x, and a site event otherwise; the event taken is
\* one of least x in its schedule, and a site is never taken while a pending
\* circle entry has x <= that site's x.
C8_EventSelection ==
    [][(pc = "sweep" /\ Len(trace') = Len(trace) + 1) =>
         LET r == trace'[Len(trace')]
             circle == /\ LiveXs(events) # {}
                       /\ MinOf(LiveXs(events)) <= MinOf(LiveXs(points)) * FS
         IN  /\ (r.kind = "circle") <=> circle
             /\ (r.kind = "site") <=> ~circle
             /\ r.kind = "circle" => r.x = MinOf(LiveXs(events))
             /\ r.kind = "site" =>
                    /\ r.x = MinOf(LiveXs(points)) * FS
                    /\ \A x \in LiveXs(events) : x > r.x]_vars

\* C8 witness: a circle event was taken in the main loop at the very sweep
\* position of a site that was still scheduled, and that site came after it.
C8_Witness ==
    \E k \in 1..Len(trace) : \E j \in (k + 1)..Len(trace) :
        /\ trace[k].kind = "circle" /\ trace[k].phase = "sweep"
        /\ trace[j].kind = "site" /\ trace[j].x = trace[k].x

\* the logical keys pushed and not yet popped or removed after n operations
RECURSIVE Pending(_)
Pending(n) ==
    IF n = 0 THEN {}
    ELSE LET r == qlog[n]
             k == KeyOf(r.item)
         IN  IF r.op = "push" THEN Pending(n - 1) \cup {k}
             ELSE IF r.op = "remove" \/ (r.op = "pop" /\ r.ok) THEN Pending(n - 1) \ {k}
             ELSE Pending(n - 1)
\* the position of the last push of key k among the first n operations (0: none)
RECURSIVE LastPush(_, _)
LastPush(n, k) ==
    IF n = 0 THEN 0
    ELSE IF qlog[n].op = "push" /\ KeyOf(qlog[n].item) = k THEN n
    ELSE LastPush(n - 1, k)
Live(Q) == {e \in Q.queue : ~e.removed}

\* C9: a push of a key that is live replaces its entry: there is one live heap
\* entry and one index entry per key, the live items are never more than the
\* keys pushed and not yet popped or removed, and pop / top only return the
\* object of the last push of a pending key, never a replaced or removed one.
C9_ReplaceOnPush ==
    /\ \A e \in Live(q), f \in Live(q) : KeyOf(e.item) = KeyOf(f.item) => e = f
    /\ \A i \in 1..Len(q.finder), j \in 1..Len(q.finder) :
           KeyOf(q.finder[i].item) = KeyOf(q.finder[j].item) => i = j
    /\ {e.item : e \in Live(q)} = {q.finder[i].item : i \in 1..Len(q.finder)}
    /\ Len(q.finder) <= Cardinality(Pending(Len(qlog)))
    /\ \A n \in 1..Len(qlog) :
           (qlog[n].op \in {"pop", "top"} /\ qlog[n].ok) =>
               /\ KeyOf(qlog[n].item) \in Pending(n - 1)
               /\ qlog[n].item.id = LastPush(n - 1, KeyOf(qlog[n].item))

\* C9 witness: a key was pushed while live (a replacement) and a later pop
\* returned the object of the second push.
C9_Witness ==
    \E n \in 1..Len(qlog) : \E k \in 1..(n - 1) :
        /\ qlog[n].op = "pop" /\ qlog[n].ok
        /\ qlog[k].op = "push"
        /\ KeyOf(qlog[k].item) = KeyOf(qlog[n].item)
        /\ KeyOf(qlog[k].item) \in Pending(k - 1)
        /\ qlog[n].item.id = k

\* C10 (as claimed): pop returns live items of equal x in the order of their
\* pushes, whatever top / remove calls came in between: no item of the same x
\* that was pushed earlier is still live when an item is popped.
C10_FifoTieBreak ==
    \A n \in 1..Len(qlog) :
        (qlog[n].op = "pop" /\ qlog[n].ok) =>
            \A k \in Pending(n - 1) :
                k[1] = qlog[n].item.x =>
                    LastPush(n - 1, k) >= LastPush(n - 1, KeyOf(qlog[n].item))

\* the live items of a schedule: by its heap and by its index
LiveItems(Q) == {e.item : e \in Live(Q)}
FinderItems(Q) == {Q.finder[i].item : i \in 1..Len(Q.finder)}
\* the step appends the operation op to the history
QStep(op) == Len(qlog') = Len(qlog) + 1 /\ qlog'[Len(qlog')].op = op

\* C11: top() is non-destructive: on a non-empty schedule it returns a live
\* item of minimum x, and after any top() the live items (of the heap and of
\* the index) and the result of empty() are what they were before.
C11_PeekNonDestructive ==
    [][QStep("top") =>
         /\ ~empty(q) =>
                /\ qlog'[Len(qlog')].ok
                /\ qlog'[Len(qlog')].item \in LiveItems(q)
                /\ qlog'[Len(qlog')].item \in FinderItems(q)
                /\ \A x \in LiveXs(q) : qlog'[Len(qlog')].item.x <= x
         /\ LiveItems(q') = LiveItems(q)
         /\ FinderItems(q') = FinderItems(q)
         /\ empty(q') <=> empty(q)]_vars

\* C11 witness: top() returned an item while two keys were live and an
\* earlier operation had left a tombstone in the heap.
C11_Witness ==
    \E n \in 1..Len(qlog) :
        /\ qlog[n].op = "top" /\ qlog[n].ok
        /\ Cardinality(Pending(n - 1)) >= 2
        /\ \E k \in 1..(n - 1) : qlog[k].op = "remove"
        /\ Cardinality(LiveItems(q)) >= 2

\* C12: pop() on a schedule that is not empty() returns an item, the item is
\* live, its x is least among the live items, and exactly that item leaves
\* the live set; a tombstoned entry is never returned.
C12_PopMin ==
    [][(QStep("pop") /\ ~empty(q)) =>
         /\ qlog'[Len(qlog')].ok
         /\ qlog'[Len(qlog')].item \in LiveItems(q)
         /\ qlog'[Len(qlog')].item \in FinderItems(q)
         /\ \A x \in LiveXs(q) : qlog'[Len(qlog')].item.x <= x
         /\ LiveItems(q') = LiveItems(q) \ {qlog'[Len(qlog')].item}
         /\ FinderItems(q') = FinderItems(q) \ {qlog'[Len(qlog')].item}
         /\ \A e \in q.queue : e.removed => e \notin Live(q')]_vars

\* C12 witness: pop() returned an item of smaller x than another live item
\* that had been pushed before it, after an earlier remove left a tombstone.
C12_Witness ==
    \E n \in 1..Len(qlog) :
        /\ qlog[n].op = "pop" /\ qlog[n].ok
        /\ \E k \in 1..(n - 1) : qlog[k].op = "remove"
        /\ \E j \in Pending(n - 1) :
               /\ j[1] > qlog[n].item.x
               /\ LastPush(n - 1, j) < LastPush(n - 1, KeyOf(qlog[n].item))

\* the site events processed so far for the site s
SiteEvents(s) == {k \in 1..Len(trace) : trace[k].kind = "site" /\ trace[k].p = s}
Processed == {trace[k].p : k \in {j \in 1..Len(trace) : trace[j].kind = "site"}}

\* C13: a site given several times is one entry of the site schedule and one
\* site event of the sweep: after _add_points the schedule holds the distinct
\* sites, once each; during the sweep it holds the distinct sites not yet
\* processed, no site is processed twice, and when the sweep is over every
\* distinct site has been processed once.  One distinct site, given any
\* number of times, ends with no edge and no circle.
C13_DuplicateCollapse ==
    /\ Len(points.finder) = Cardinality(FinderItems(points))
    /\ LiveItems(points) = FinderItems(points)
    /\ Cardinality(Live(points)) = Len(points.finder)
    /\ pc = "start" => FinderItems(points) = SitePts
    /\ \A s \in SitePts : Cardinality(SiteEvents(s)) <= 1
    /\ (pc \in {"sweep", "drain", "clip", "done"} /\ Cardinality(SitePts) # 2) =>
           /\ FinderItems(points) = SitePts \ Processed
           /\ Processed \subseteq SitePts
    /\ (pc \in {"drain", "clip", "done"} /\ Cardinality(SitePts) # 2) =>
           \A s \in SitePts : Cardinality(SiteEvents(s)) = 1
    /\ (pc = "done" /\ Cardinality(SitePts) = 1) =>
           output = <<>> /\ largest_empty_circles = <<>>

\* C13 witness: an input that repeats a site among three distinct ones has
\* been swept to the end.
C13_Witness ==
    /\ pc = "done"
    /\ Len(sites) > Cardinality(SitePts)
    /\ Cardinality(SitePts) = 3
    /\ Len(trace) >= Cardinality(SitePts)

\* C14: with no site or one distinct site, generate_voronoi_diagram runs to
\* its end (no loop that cannot end, a step is always possible until it
\* returns) and returns no edge and no circle.
C14_InsufficientInput ==
    Cardinality(SitePts) <= 1 =>
        /\ pc # "hang"
        /\ pc = "done" \/ ENABLED Next
        /\ output = <<>>
        /\ largest_empty_circles = <<>>
        /\ events = EmptyQueue

\* C14 witness: the construction has returned for one distinct site, after
\* its site event made it the only arc of the beachline.
C14_Witness ==
    /\ pc = "done"
    /\ Cardinality(SitePts) = 1
    /\ Len(arcs) = 1
    /\ parabolicArc = 1

\* the arcs met by following pnext from arc i, at most fuel of them
RECURSIVE Walk(_, _, _)
Walk(A, i, fuel) ==
    IF i = None \/ fuel = 0 THEN <<>>
    ELSE <<i>> \o Walk(A, A[i].pnext, fuel - 1)
\* the beachline: the arcs reachable from the head (one more than there are
\* arcs when the walk does not end)
Beachline == Walk(arcs, parabolicArc, Len(arcs) + 1)

\* C15: the first finish(p) on an edge sets end = p and done = TRUE; every
\* later finish(q), q equal to p or not, leaves the edge as it is: a finished
\* edge keeps its two endpoints.
C15_FinishOnce ==
    [][QStep("finish") =>
         /\ output'[1].start = output[1].start
         /\ output'[1].done
         /\ ~output[1].done => output'[1].end = qlog'[Len(qlog')].item
         /\ output[1].done => output'[1] = output[1]
         /\ output'[1].end = qlog'[1].item]_vars

\* C15 witness: an edge finished with p has since been given finish(q) with
\* another point and finish(p) again, and its end is still p.
C15_Witness ==
    /\ Len(qlog) >= 3
    /\ qlog[1].op = "finish"
    /\ qlog[2].item # qlog[1].item
    /\ qlog[3].item = qlog[1].item
    /\ output[1].done
    /\ output[1].end = qlog[1].item

\* the squared radius of the circle of the circle event e: its arc's site is
\* on the circle
RadiusOf(e) == Dist2(e.p, arcs[e.a].p)

\* C16: max_circle_radius never decreases from one state to the next.
C16_MonotonicMax ==
    [][max_circle_radius' >= max_circle_radius]_vars

\* C16 witness: the maximum has been raised from a smaller circle recorded
\* before, and a circle smaller than the maximum was found after it.
C16_Witness ==
    /\ max_circle_radius > 0
    /\ \E i \in 1..Len(evs), j \in 1..Len(evs), k \in 1..Len(evs) :
           /\ i < j /\ j < k
           /\ RadiusOf(evs[i]) < RadiusOf(evs[j])
           /\ RadiusOf(evs[j]) = max_circle_radius
           /\ RadiusOf(evs[k]) < max_circle_radius
           /\ \E n \in 1..Len(largest_empty_circles) :
                  largest_empty_circles[n].e = j

\* C17: every circle of the result list has the running maximum as its
\* radius: a larger circle resets the list, a smaller one never enters it,
\* and the list is empty exactly while the maximum is 0.
C17_ListAtMax ==
    /\ \A i \in 1..Len(largest_empty_circles) :
           largest_empty_circles[i].radius = max_circle_radius
    /\ (largest_empty_circles = <<>>) <=> (max_circle_radius = 0)

\* C17 witness: the list holds two circles of the maximal radius, recorded
\* after a smaller circle had been found.
C17_Witness ==
    /\ Len(largest_empty_circles) >= 2
    /\ \E k \in 1..Len(evs) :
           /\ k < largest_empty_circles[1].e
           /\ RadiusOf(evs[k]) < max_circle_radius
           /\ RadiusOf(evs[k]) > 0

\* the step pops a circle event and finds it valid
PopsValid ==
    /\ Len(trace') = Len(trace) + 1
    /\ trace'[Len(trace')].kind = "circle"
    /\ trace'[Len(trace')].valid
\* the arc of the circle event popped by the step
PoppedArc == evs[trace'[Len(trace')].id].a
OnBeachline(a) == \E k \in 1..Len(Beachline) : Beachline[k] = a

\* C18: whenever a circle event is popped and found valid, its arc is on the
\* beachline (reachable from the head) and has both neighbours.
C18_LazyInvalidation ==
    [][PopsValid =>
         /\ OnBeachline(PoppedArc)
         /\ arcs[PoppedArc].pprev # None
         /\ arcs[PoppedArc].pnext # None]_vars

\* the step is a site event that splits an arc of the beachline: it makes
\* two arcs (a site event that starts or extends the beachline makes one)
SplitStep ==
    /\ Len(trace') = Len(trace) + 1
    /\ trace'[Len(trace')].kind = "site"
    /\ Len(arcs') = Len(arcs) + 2
\* arc k of the beachline is split around the site p: three arcs (the site of
\* arc k, p, the site of arc k) stand between its old neighbours
SplitInPlace(k, p) ==
    /\ Len(Beachline') = Len(Beachline) + 2
    /\ SubSeq(Beachline', 1, k) = SubSeq(Beachline, 1, k)
    /\ SubSeq(Beachline', k + 3, Len(Beachline'))
           = SubSeq(Beachline, k + 1, Len(Beachline))
    /\ arcs'[Beachline'[k]].p = arcs[Beachline[k]].p
    /\ arcs'[Beachline'[k + 1]].p = p
    /\ arcs'[Beachline'[k + 2]].p = arcs[Beachline[k]].p
\* exactly two edges are appended, both starting at the same point
TwoNewEdges ==
    /\ Len(output') = Len(output) + 2
    /\ SubSeq(output', 1, Len(output)) = output
    /\ output'[Len(output) + 1].start = output'[Len(output) + 2].start

\* C19: a site event that splits an arc replaces it by three arcs (its site,
\* the new site, its site) between its old neighbours, keeps every other arc
\* of the beachline in its order, so the beachline grows by exactly 2, and
\* appends exactly two edges that start at the same point.
C19_SplitPreservesRest ==
    [][SplitStep =>
         /\ \E k \in 1..Len(Beachline) : SplitInPlace(k, trace'[Len(trace')].p)
         /\ TwoNewEdges]_vars

\* C20: after every site and circle event the arcs reachable from the head
\* form a doubly linked list: a.pnext = b implies b.pprev = a, the head has no
\* pprev, the last arc has no pnext, and the walk from the head ends (no cycle).
C20_LinkInvariant ==
    parabolicArc # None =>
        /\ Len(Beachline) <= Len(arcs)
        /\ arcs[parabolicArc].pprev = None
        /\ arcs[Beachline[Len(Beachline)]].pnext = None
        /\ \A k \in 1..(Len(Beachline) - 1) :
               arcs[Beachline[k + 1]].pprev = Beachline[k]
        /\ \A j \in 1..Len(Beachline), k \in 1..Len(Beachline) :
               Beachline[j] = Beachline[k] => j = k

\* C20 witness: a valid circle event has taken an arc out of a beachline
\* that still holds three arcs or more, and a later site event has split one.
C20_Witness ==
    /\ parabolicArc # None
    /\ Len(Beachline) >= 3
    /\ \E j \in 1..Len(trace), k \in 1..Len(trace) :
           /\ j < k
           /\ trace[j].kind = "circle" /\ trace[j].valid
           /\ trace[k].kind = "site"

\* the arc split by the step: the left neighbour of the arc of the new site
SplitArcOf == arcs'[Len(arcs) + 2].pprev

\* C21: when a site event at sweep position s splits an arc that has a
\* pending circle event whose key x differs from s, the split marks that
\* event invalid; the sites may lie anywhere, left of x = 0 included.
C21_StaleEventInvalidated ==
    [][SplitStep =>
         \A e \in 1..Len(evs) :
             (/\ arcs[SplitArcOf].e = e
              /\ evs[e].x # trace'[Len(trace')].x) => ~evs'[e].valid]_vars

\* the step processes one event, of a site or of a circle
EventStep == Len(trace') = Len(trace) + 1
\* arc a is new or has another left or right neighbour after the step
NeighbourChanged(a) ==
    \/ a > Len(arcs)
    \/ arcs'[a].pprev # arcs[a].pprev
    \/ arcs'[a].pnext # arcs[a].pnext
\* the arc's circle event is what an evaluation of the circle cc at sweep
\* position x0 leaves: the event of cc when cc is a candidate, none otherwise
EvaluatedAs(a, e, cc, x0) ==
    IF cc.flag /\ cc.x > x0
    THEN /\ e # None /\ evs'[e].valid
         /\ evs'[e].a = a /\ evs'[e].x = cc.x /\ evs'[e].p = cc.o
    ELSE e = None
Reevaluated(a, x0) ==
    IF arcs'[a].pprev = None \/ arcs'[a].pnext = None THEN arcs'[a].e = None
    ELSE EvaluatedAs(a, arcs'[a].e,
                     _check_circle(arcs'[arcs'[a].pprev].p, arcs'[a].p,
                                   arcs'[arcs'[a].pnext].p), x0)

RECURSIVE Without(_, _)
Without(B, a) ==
    IF B = <<>> THEN <<>>
    ELSE IF Head(B) = a THEN Without(Tail(B), a)
    ELSE <<Head(B)>> \o Without(Tail(B), a)
\* the edge k of the removed arc is finished, at the centre c if it was open
FinishedAt(k, c) ==
    k # None => /\ output'[k].done
                /\ ~output[k].done => output'[k].end = c
\* the effect on the arc a with the neighbours l and r, the circle centre c
CollapseEffect(a, l, r, c) ==
    /\ l # None /\ r # None
    /\ OnBeachline(a)
    /\ Len(Beachline') = Len(Beachline) - 1
    /\ Beachline' = Without(Beachline, a)
    /\ arcs'[l].pnext = r /\ arcs'[r].pprev = l
    /\ Len(output') = Len(output) + 1
    /\ output'[Len(output')].start = c
    /\ ~output'[Len(output')].done
    /\ arcs'[l].s1 = Len(output') /\ arcs'[r].s0 = Len(output')
    /\ FinishedAt(arcs[a].s0, c) /\ FinishedAt(arcs[a].s1, c)

\* C23: a valid circle event of the arc a with the neighbours l and r takes
\* exactly a out of the beachline, makes l and r adjacent, appends exactly
\* one unfinished edge starting at the circle centre as l's right and r's
\* left edge, and leaves both edges of a finished (at the centre if open).
C23_ValidCircleEffect ==
    [][PopsValid =>
         CollapseEffect(PoppedArc, arcs[PoppedArc].pprev, arcs[PoppedArc].pnext,
                        trace'[Len(trace')].p)]_vars

\* C24: generate_voronoi_diagram reaches its final state: when the loops of
\* the sweep have ended (the clipping is next, or done) the site schedule and
\* the circle schedule are empty, and the clipping ends.
C24_Termination ==
    /\ <>(pc = "done")
    /\ []((pc = "clip" \/ (pc = "done" /\ trace # <<>>))
              => empty(points) /\ empty(events))

\* C24 witness: the run is over after circle events of the main loop and of
\* the drain loop.
C24_Witness ==
    /\ pc = "done"
    /\ \E j \in 1..Len(trace), k \in 1..Len(trace) :
           /\ trace[j].kind = "circle" /\ trace[j].phase = "sweep"
           /\ trace[k].kind = "circle" /\ trace[k].phase = "drain"

\* the turn of three sites given in tenths: 0 when they are collinear, below
\* 0 for a right turn
Turn(a, b, c) == (b[1] - a[1]) * (c[2] - a[2]) - (c[1] - a[1]) * (b[2] - a[2])

\* C25: the re-evaluation of an arc admits its circle (schedules an event,
\* considers it as a largest empty circle) only if the three sites are not
\* collinear and make a right turn; a collinear triple is never admitted.
C25_CircleAdmission ==
    \A k \in 1..Len(qlog) :
        (qlog[k].op = "_check_circle" /\ qlog[k].ok)
            => Turn(sites[1], sites[2], sites[3]) < 0

\* C26: the keys x of the events popped by the engine, site events and
\* circle events, valid or not, of the main loop and of the drain loop, are
\* non-decreasing in the order of processing.
C26_SweepMonotone ==
    \A j \in 1..Len(trace), k \in 1..Len(trace) :
        j < k => trace[j].x <= trace[k].x

\* C26 witness: a circle event of the main loop was processed between two
\* site events and a circle event of the drain loop after them, each at a
\* sweep position right of the one before.
C26_Witness ==
    \E i \in 1..Len(trace), j \in 1..Len(trace), k \in 1..Len(trace),
       l \in 1..Len(trace) :
        /\ i < j /\ j < k /\ k < l
        /\ trace[i].kind = "site" /\ trace[j].kind = "circle"
        /\ trace[k].kind = "site"
        /\ trace[l].kind = "circle" /\ trace[l].phase = "drain"
        /\ trace[i].x < trace[j].x /\ trace[j].x < trace[k].x
        /\ trace[k].x < trace[l].x

\* C27: after every site event and every circle event, two adjacent arcs a, b
\* of the beachline share their edge: a's right edge is b's left edge, it is
\* set, and it is an edge of the output list.
C27_SharedEdge ==
    \A k \in 1..(Len(Beachline) - 1) :
        /\ arcs[Beachline[k]].s1 = arcs[Beachline[k + 1]].s0
        /\ arcs[Beachline[k]].s1 # None
        /\ arcs[Beachline[k]].s1 \in 1..Len(output)

\* C27 witness: two adjacent arcs share the edge that a valid circle event
\* started at its centre, and two others an edge of a split.
C27_Witness ==
    \E j \in 1..Len(trace), k \in 1..(Len(Beachline) - 1),
       n \in 1..(Len(Beachline) - 1) :
        /\ trace[j].kind = "circle" /\ trace[j].valid
        /\ output[arcs[Beachline[k]].s1].start = trace[j].p
        /\ arcs[Beachline[k]].s1 > 1
        /\ arcs[Beachline[k]].s1 = arcs[Beachline[k + 1]].s0
        /\ n # k
        /\ arcs[Beachline[n]].s1 = arcs[Beachline[n + 1]].s0
        /\ output[arcs[Beachline[n]].s1].start # trace[j].p

\* C28: after every site event and every circle event, no two adjacent arcs
\* of the beachline have the same site.
C28_DistinctNeighbours ==
    \A k \in 1..(Len(Beachline) - 1) :
        arcs[Beachline[k]].p # arcs[Beachline[k + 1]].p

\* C28 witness: the input repeats a site, and the beachline holds four arcs
\* or more after a valid circle event took one out.
C28_Witness ==
    /\ Len(sites) > Cardinality(SitePts)
    /\ Len(Beachline) >= 4
    /\ \E j \in 1..Len(trace) : trace[j].kind = "circle" /\ trace[j].valid

\* the step pops a circle event and finds it invalid
PopsInvalid ==
    /\ Len(trace') = Len(trace) + 1
    /\ trace'[Len(trace')].kind = "circle"
    /\ ~trace'[Len(trace')].valid

\* C29: popping an invalid circle event takes that event out of the circle
\* schedule and changes nothing else: the arcs with their links, edges and
\* events, the output list and every edge, the sites of the site schedule,
\* the maximal radius and the list of largest empty circles stay as they are.
C29_InvalidIsNoOp ==
    [][PopsInvalid =>
         /\ arcs' = arcs /\ parabolicArc' = parabolicArc /\ evs' = evs
         /\ output' = output
         /\ max_circle_radius' = max_circle_radius
         /\ largest_empty_circles' = largest_empty_circles
         /\ LiveItems(points') = LiveItems(points)
         /\ FinderItems(points') = FinderItems(points)
         /\ LiveItems(events')
                = {e \in LiveItems(events) : e.id # trace'[Len(trace')].id}
         /\ \E e \in LiveItems(events) : e.id = trace'[Len(trace')].id]_vars

\* C29 witness: after a valid circle event an invalid one was popped, while
\* output edges and a largest empty circle existed.
C29_Witness ==
    /\ largest_empty_circles # <<>>
    /\ Len(output) >= 2
    /\ \E j \in 1..Len(trace), k \in 1..Len(trace) :
           /\ j < k
           /\ trace[j].kind = "circle" /\ trace[j].valid
           /\ trace[k].kind = "circle" /\ ~trace[k].valid

====
